---- MODULE Spec2Model ----
(***************************************************************************)
(* Model of the xcore sync engine: Client.Sync / Client.StopSync           *)
(* (client.go), the in-memory Store (store.go), the Frame state table      *)
(* (frame.go) and DefaultSyncer (the syncer source file).                  *)
(*                                                                         *)
(* Stream positions are modelled as naturals; 0 stands for the empty       *)
(* string "" (no since-position yet).  The server answers a fetch for      *)
(* since = p with a NextBatch strictly after p, so a since-position        *)
(* identifies the server response that was fetched for it.                 *)
(***************************************************************************)
EXTENDS Integers, Sequences, FiniteSets, TLC

\* ---------------------------------------------------------------- bounds
MaxPos == 2          \* highest stream position the server hands out
MaxCalls == 3        \* Sync() and StopSync() calls made on the client
MaxListeners == 1    \* OnEventType registrations
MaxUpdates == 3      \* UpdateState calls made on one frame
MaxRegs == 3         \* OnEventType registrations when the registry is used alone

\* ------------------------------------------------------------- constants
\* cli.syncingID is a uint32.  The model checker's integers are 32-bit signed,
\* so the uint32 value v is represented by v - 2^31: Zero32 stands for 0 and
\* Max32 for 2^32 - 1.  The representation keeps order and equality.
Max32 == 2147483647
Zero32 == (0 - Max32) - 1
UserID == "@me"
OtherUser == "@a"
MemberType == "m.frame.member"
MsgType == "m.msg"
NoKey == "<nil>"           \* Event.StateKey == nil
Absent == "<absent>"       \* Content has no "membership" field
NotString == "<nonstring>" \* Content["membership"] is not a string
\* the nil *Event that GetStateEvent returns when it finds nothing
NilEvent == [Type |-> "<nil>", StateKey |-> NoKey, Membership |-> Absent,
             FrameID |-> ""]
Empty == 0                 \* the stream position ""
NoFilter == ""             \* the filter ID ""

Procs == {1, 2}            \* goroutines that call cli.Sync()
FilterIDs == {"f1", "f2"}
Callbacks == {"cbOk", "cbPanic"}   \* a listener that returns / one that panics
EventTypes == {MemberType, MsgType}

VARIABLES
    syncingID,   \* cli.syncingID
    Store,       \* cli.Store: [Filters, NextBatch, Frames]
    listeners,   \* DefaultSyncer.listeners: event type -> sequence of callbacks
    pc,          \* per goroutine: position inside Sync()
    token,       \* per goroutine: the local syncingID of Sync()
    nextBatch,   \* per goroutine: the local nextBatch of Sync()
    filterID,    \* per goroutine: the local filterID of Sync()
    resSync,     \* per goroutine: the response of the last SyncRequest
    ret,         \* per goroutine: what Sync() returned ("none" while it runs)
    calls,       \* number of Sync() and StopSync() calls made so far
    hist,        \* observation record (calls made so far)
    loopVar      \* how the build scopes the variable of a for-range loop

vars == <<syncingID, Store, listeners, pc, token, nextBatch, filterID,
          resSync, ret, calls, hist, loopVar>>

\* ------------------------------------------------------------ the events
Ev(t, k, m) == [Type |-> t, StateKey |-> k, Membership |-> m, FrameID |-> ""]

NoEvents == << >>

JoinData(st, tl, eph) == [State |-> st, Timeline |-> tl, Ephemeral |-> eph]
InviteData(st) == [State |-> st]
LeaveData(st, tl) == [State |-> st, Timeline |-> tl]

EmptyMap == [x \in {} |-> x]

Frames(j, i, l) == [Join |-> j, Invite |-> i, Leave |-> l]

\* ------------------------------------------------------ frame.go: Frame
NewFrame(frameID) == [ID |-> frameID, State |-> EmptyMap]

IsString(m) == m \notin {Absent, NotString}

\* variant: an entry that exists is kept
UpdateStateKeepFirst(frame, event) ==
    LET withType == IF event.Type \in DOMAIN frame.State
                    THEN frame.State
                    ELSE (event.Type :> EmptyMap) @@ frame.State
    IN  IF event.StateKey = NoKey
        THEN [frame |-> [frame EXCEPT !.State = withType], panicked |-> TRUE]
        ELSE [frame |-> [frame EXCEPT !.State =
                           [withType EXCEPT ![event.Type] =
                               @ @@ (event.StateKey :> event)]],
              panicked |-> FALSE]

\* Frame.UpdateState: the inner map is created first, then *event.StateKey
\* is dereferenced, which panics when the StateKey is nil.
UpdateState(frame, event) ==
    LET withType == IF event.Type \in DOMAIN frame.State
                    THEN frame.State
                    ELSE (event.Type :> EmptyMap) @@ frame.State
    IN  IF event.StateKey = NoKey
        THEN [frame |-> [frame EXCEPT !.State = withType], panicked |-> TRUE]
        ELSE [frame |-> [frame EXCEPT !.State =
                           [withType EXCEPT ![event.Type] =
                               (event.StateKey :> event) @@ @]],
              panicked |-> FALSE]

GetStateEvent(frame, eventType, stateKey) ==
    IF eventType \in DOMAIN frame.State
       /\ stateKey \in DOMAIN frame.State[eventType]
    THEN frame.State[eventType][stateKey]
    ELSE NilEvent

\* variant: the membership value is returned whatever its type
GetMembershipStateUnchecked(frame, userID) ==
    LET event == GetStateEvent(frame, MemberType, userID)
    IN  IF event # NilEvent THEN event.Membership ELSE "leave"

GetMembershipState(frame, userID) ==
    LET event == GetStateEvent(frame, MemberType, userID)
    IN  IF event # NilEvent /\ event.Membership # Absent
           /\ IsString(event.Membership)
        THEN event.Membership
        ELSE "leave"

\* ------------------------------------------------ store.go: InMemoryStore
NewInMemoryStore == [Filters |-> EmptyMap, NextBatch |-> EmptyMap,
                     Frames |-> EmptyMap]

LoadFilterID(store, userID) ==
    IF userID \in DOMAIN store.Filters THEN store.Filters[userID] ELSE NoFilter

SaveFilterID(store, userID, id) ==
    [store EXCEPT !.Filters = (userID :> id) @@ @]

LoadNextBatch(store, userID) ==
    IF userID \in DOMAIN store.NextBatch THEN store.NextBatch[userID] ELSE Empty

SaveNextBatch(store, userID, nextBatchToken) ==
    [store EXCEPT !.NextBatch = (userID :> nextBatchToken) @@ @]

\* ------------------------------------------------ syncer: DefaultSyncer
\* "for _, event := range ..." followed by "frame.UpdateState(&event)": the
\* state table keeps the address of the range variable.  A build with one
\* variable per loop ("shared") makes every entry stored by one loop point at
\* the same variable; a build with one variable per iteration ("fresh") gives
\* every entry its own event.  Which one applies is fixed by the build.
LoopVarModes == {"shared", "fresh"}

\* The processing state threaded through ProcessResponse: the frames of the
\* Store, the operations performed so far, and whether a panic was raised.
PState(frames) == [frames |-> frames, trace |-> << >>, panicked |-> FALSE]

Restrict(m, drop) == [x \in (DOMAIN m) \ drop |-> m[x]]

\* the error built by the deferred recover() (line 52), and err == nil
NoError == [userID |-> "", since |-> -1]
PanicError(userID, since) == [userID |-> userID, since |-> since]

\* variant: a member event of the user that is not a join ends the scan
RECURSIVE JoinScanStopsEarly(_, _)
JoinScanStopsEarly(events, i) ==
    IF i = 0 THEN FALSE
    ELSE LET e == events[i]
         IN  IF e.Type = MemberType /\ e.StateKey # NoKey /\ e.StateKey = UserID
             THEN IsString(e.Membership) /\ e.Membership = "join"
             ELSE JoinScanStopsEarly(events, i - 1)

\* the reverse scan of one joined frame's timeline (lines 117-135)
RECURSIVE JoinScan(_, _)
JoinScan(events, i) ==
    IF i = 0 THEN FALSE
    ELSE LET e == events[i]
         IN  IF e.Type = MemberType /\ e.StateKey # NoKey /\ e.StateKey = UserID
             THEN IF ~IsString(e.Membership) THEN JoinScan(events, i - 1)
                  ELSE IF e.Membership = "join" THEN TRUE
                  ELSE JoinScan(events, i - 1)
             ELSE JoinScan(events, i - 1)

\* variant: the initial sync is not told apart
shouldProcessResponseAnySince(resp, since) ==
    LET drop == {f \in DOMAIN resp.Frames.Join :
                   JoinScan(resp.Frames.Join[f].Timeline,
                            Len(resp.Frames.Join[f].Timeline))}
    IN  [ok |-> TRUE,
         resp |-> [resp EXCEPT !.Frames.Join = Restrict(@, drop),
                               !.Frames.Invite = Restrict(@, drop)]]

\* variant: no response is reconciled, whatever the since
shouldProcessResponseNever(resp, since) == [ok |-> FALSE, resp |-> resp]

\* variant: the frame is removed from the invited bucket only
shouldProcessResponseKeepJoin(resp, since) ==
    IF since = Empty
    THEN [ok |-> FALSE, resp |-> resp]
    ELSE LET drop == {f \in DOMAIN resp.Frames.Join :
                        JoinScan(resp.Frames.Join[f].Timeline,
                                 Len(resp.Frames.Join[f].Timeline))}
         IN  [ok |-> TRUE,
              resp |-> [resp EXCEPT !.Frames.Invite = Restrict(@, drop)]]

\* variant: the frame is removed from the joined bucket only
shouldProcessResponseKeepInvite(resp, since) ==
    IF since = Empty
    THEN [ok |-> FALSE, resp |-> resp]
    ELSE LET drop == {f \in DOMAIN resp.Frames.Join :
                        JoinScan(resp.Frames.Join[f].Timeline,
                                 Len(resp.Frames.Join[f].Timeline))}
         IN  [ok |-> TRUE,
              resp |-> [resp EXCEPT !.Frames.Join = Restrict(@, drop)]]

shouldProcessResponse(resp, since) ==
    IF since = Empty
    THEN [ok |-> FALSE, resp |-> resp]
    ELSE LET drop == {f \in DOMAIN resp.Frames.Join :
                        JoinScan(resp.Frames.Join[f].Timeline,
                                 Len(resp.Frames.Join[f].Timeline))}
         IN  [ok |-> TRUE,
              resp |-> [resp EXCEPT !.Frames.Join = Restrict(@, drop),
                                    !.Frames.Invite = Restrict(@, drop)]]

\* variant: a new frame is made and saved whether or not the Store has one
getOrCreateFrameAlwaysNew(st, frameID) ==
    [st EXCEPT !.frames = (frameID :> NewFrame(frameID)) @@ @,
               !.trace = Append(@, [op |-> "save", frame |-> frameID])]

getOrCreateFrame(st, frameID) ==
    IF frameID \in DOMAIN st.frames
    THEN st
    ELSE [st EXCEPT !.frames = (frameID :> NewFrame(frameID)) @@ @,
                    !.trace = Append(@, [op |-> "save", frame |-> frameID])]

\* what the state table of the event's frame holds at the event's
\* (type, state key) at this moment
Held(st, event) ==
    IF event.FrameID \in DOMAIN st.frames
    THEN GetStateEvent(st.frames[event.FrameID], event.Type, event.StateKey)
    ELSE NilEvent

RECURSIVE CallAll(_, _, _, _, _, _)
CallAll(st, fns, i, event, bucket, part) ==
    IF i > Len(fns) THEN st
    ELSE LET called == [st EXCEPT !.trace = Append(@,
                          [op |-> "call", bucket |-> bucket, part |-> part,
                           fn |-> fns[i], event |-> event,
                           held |-> Held(st, event)])]
         IN  IF fns[i] = "cbPanic"
             THEN [called EXCEPT !.panicked = TRUE]
             ELSE CallAll(called, fns, i + 1, event, bucket, part)

\* variant: a fault of a callback is swallowed
notifyListenersSwallow(st, lst, event, bucket, part) ==
    IF event.Type \notin DOMAIN lst THEN st
    ELSE [CallAll(st, lst[event.Type], 1, event, bucket, part)
            EXCEPT !.panicked = st.panicked]

notifyListeners(st, lst, event, bucket, part) ==
    IF event.Type \notin DOMAIN lst THEN st
    ELSE CallAll(st, lst[event.Type], 1, event, bucket, part)

\* the range variable of the running loop takes a new value: with one variable
\* per loop, the entries this loop has stored so far (cells) show that value
Assign(st, frameID, cells, event) ==
    IF loopVar = "fresh" THEN st
    ELSE [st EXCEPT !.frames[frameID].State =
            [t \in DOMAIN @ |->
               [k \in DOMAIN @[t] |->
                  IF <<t, k>> \in cells THEN event ELSE @[t][k]]]]

\* variant: the listeners are told before the state table is updated
NotifyThenUpdate(st, lst, frameID, event, bucket, part) ==
    LET n == notifyListeners(st, lst, event, bucket, part)
        u == UpdateState(n.frames[frameID], event)
    IN  IF n.panicked THEN n
        ELSE [n EXCEPT !.frames[frameID] = u.frame,
                       !.panicked = u.panicked,
                       !.trace = IF u.panicked THEN @
                                 ELSE Append(@, [op |-> "update", bucket |-> bucket,
                                                 part |-> part, event |-> event])]

\* "frame.UpdateState(&event); s.notifyListeners(&event)"
UpdateThenNotify(st, lst, frameID, event, bucket, part) ==
    LET u == UpdateState(st.frames[frameID], event)
        st1 == [st EXCEPT !.frames[frameID] = u.frame]
    IN  IF u.panicked
        THEN [st1 EXCEPT !.panicked = TRUE]
        ELSE notifyListeners(
               [st1 EXCEPT !.trace = Append(@,
                   [op |-> "update", bucket |-> bucket, part |-> part,
                    event |-> event])],
               lst, event, bucket, part)

\* "for _, event := range events { event.FrameID = frameID;
\*  frame.UpdateState(&event); s.notifyListeners(&event) }"
RECURSIVE StateLoop(_, _, _, _, _, _, _)
StateLoop(st, lst, frameID, events, i, bucket, cells) ==
    IF st.panicked \/ i > Len(events) THEN st
    ELSE LET event == [events[i] EXCEPT !.FrameID = frameID]
             s1 == Assign(st, frameID, cells, event)
             s2 == UpdateThenNotify(s1, lst, frameID, event, bucket, "state")
         IN  StateLoop(s2, lst, frameID, events, i + 1, bucket,
                       cells \cup {<<event.Type, event.StateKey>>})

\* "for _, event := range events { event.FrameID = frameID;
\*  s.notifyListeners(&event) }"
RECURSIVE NotifyLoop(_, _, _, _, _, _, _)
NotifyLoop(st, lst, frameID, events, i, bucket, part) ==
    IF st.panicked \/ i > Len(events) THEN st
    ELSE NotifyLoop(
           notifyListeners(st, lst, [events[i] EXCEPT !.FrameID = frameID],
                           bucket, part),
           lst, frameID, events, i + 1, bucket, part)

\* the Leave bucket (lines 82-88): the range variable takes every timeline
\* event; only those with a StateKey get the frame ID, update and notify
RECURSIVE LeaveLoop(_, _, _, _, _, _)
LeaveLoop(st, lst, frameID, events, i, cells) ==
    IF st.panicked \/ i > Len(events) THEN st
    ELSE LET s0 == Assign(st, frameID, cells, events[i])
         IN  IF events[i].StateKey # NoKey
             THEN LET event == [events[i] EXCEPT !.FrameID = frameID]
                      s1 == Assign(s0, frameID, cells, event)
                      s2 == UpdateThenNotify(s1, lst, frameID, event,
                                             "leave", "timeline")
                  IN  LeaveLoop(s2, lst, frameID, events, i + 1,
                                cells \cup {<<event.Type, event.StateKey>>})
             ELSE LeaveLoop(s0, lst, frameID, events, i + 1, cells)

\* variant: the timeline events of a joined frame update the state table too
RECURSIVE JoinBucketTimelineUpdates(_, _, _, _, _)
JoinBucketTimelineUpdates(st, lst, join, order, i) ==
    IF st.panicked \/ i > Len(order) THEN st
    ELSE LET frameID == order[i]
             s0 == getOrCreateFrame(st, frameID)
             s1 == StateLoop(s0, lst, frameID, join[frameID].State, 1, "join", {})
             s2 == LeaveLoop(s1, lst, frameID, join[frameID].Timeline, 1, {})
             s3 == NotifyLoop(s2, lst, frameID, join[frameID].Timeline, 1,
                              "join", "timeline")
             s4 == NotifyLoop(s3, lst, frameID, join[frameID].Ephemeral, 1,
                              "join", "ephemeral")
         IN  JoinBucketTimelineUpdates(s4, lst, join, order, i + 1)

RECURSIVE JoinBucket(_, _, _, _, _)
JoinBucket(st, lst, join, order, i) ==
    IF st.panicked \/ i > Len(order) THEN st
    ELSE LET frameID == order[i]
             s0 == getOrCreateFrame(st, frameID)
             s1 == StateLoop(s0, lst, frameID, join[frameID].State, 1, "join", {})
             s2 == NotifyLoop(s1, lst, frameID, join[frameID].Timeline, 1,
                              "join", "timeline")
             s3 == NotifyLoop(s2, lst, frameID, join[frameID].Ephemeral, 1,
                              "join", "ephemeral")
         IN  JoinBucket(s3, lst, join, order, i + 1)

\* variant: the invite-state events are dispatched without a state update
RECURSIVE InviteBucketNotifyOnly(_, _, _, _, _)
InviteBucketNotifyOnly(st, lst, invite, order, i) ==
    IF st.panicked \/ i > Len(order) THEN st
    ELSE LET frameID == order[i]
             s0 == getOrCreateFrame(st, frameID)
             s1 == NotifyLoop(s0, lst, frameID, invite[frameID].State, 1,
                              "invite", "state")
         IN  InviteBucketNotifyOnly(s1, lst, invite, order, i + 1)

RECURSIVE InviteBucket(_, _, _, _, _)
InviteBucket(st, lst, invite, order, i) ==
    IF st.panicked \/ i > Len(order) THEN st
    ELSE LET frameID == order[i]
             s0 == getOrCreateFrame(st, frameID)
             s1 == StateLoop(s0, lst, frameID, invite[frameID].State, 1,
                             "invite", {})
         IN  InviteBucket(s1, lst, invite, order, i + 1)

RECURSIVE LeaveBucket(_, _, _, _, _)
LeaveBucket(st, lst, leave, order, i) ==
    IF st.panicked \/ i > Len(order) THEN st
    ELSE LET frameID == order[i]
             s0 == getOrCreateFrame(st, frameID)
             s1 == LeaveLoop(s0, lst, frameID, leave[frameID].Timeline, 1, {})
         IN  LeaveBucket(s1, lst, leave, order, i + 1)

\* the orders in which a Go map with key set S can be ranged over
Orders(S) == {o \in [1..Cardinality(S) -> S] :
                \A i, j \in 1..Cardinality(S) : i # j => o[i] # o[j]}

\* variant: the invited bucket is reconciled before the joined bucket
ProcessResponseInviteFirst(res, since, frames, lst, oj, oi, ol) ==
    LET sp == shouldProcessResponse(res, since)
    IN  IF ~sp.ok
        THEN [err |-> NoError, res |-> sp.resp, frames |-> frames, trace |-> << >>]
        ELSE LET v == InviteBucket(PState(frames), lst, sp.resp.Frames.Invite, oi, 1)
                 j == JoinBucket(v, lst, sp.resp.Frames.Join, oj, 1)
                 l == LeaveBucket(j, lst, sp.resp.Frames.Leave, ol, 1)
             IN  [err |-> IF l.panicked THEN PanicError(UserID, since) ELSE NoError,
                  res |-> sp.resp, frames |-> l.frames, trace |-> l.trace]

\* variant: a fault undoes what the call did to the frames
ProcessResponseRollback(res, since, frames, lst, oj, oi, ol) ==
    LET sp == shouldProcessResponse(res, since)
    IN  IF ~sp.ok
        THEN [err |-> NoError, res |-> sp.resp, frames |-> frames, trace |-> << >>]
        ELSE LET j == JoinBucket(PState(frames), lst, sp.resp.Frames.Join, oj, 1)
                 v == InviteBucket(j, lst, sp.resp.Frames.Invite, oi, 1)
                 l == LeaveBucket(v, lst, sp.resp.Frames.Leave, ol, 1)
             IN  [err |-> IF l.panicked THEN PanicError(UserID, since) ELSE NoError,
                  res |-> sp.resp,
                  frames |-> IF l.panicked THEN frames ELSE l.frames,
                  trace |-> l.trace]

\* ProcessResponse for one choice of the three map iteration orders.
\* err is the error the deferred recover() makes of a panic, or NoError.
ProcessResponse(res, since, frames, lst, oj, oi, ol) ==
    LET sp == shouldProcessResponse(res, since)
    IN  IF ~sp.ok
        THEN [err |-> NoError, res |-> sp.resp, frames |-> frames, trace |-> << >>]
        ELSE LET j == JoinBucket(PState(frames), lst, sp.resp.Frames.Join, oj, 1)
                 v == InviteBucket(j, lst, sp.resp.Frames.Invite, oi, 1)
                 l == LeaveBucket(v, lst, sp.resp.Frames.Leave, ol, 1)
             IN  [err |-> IF l.panicked THEN PanicError(UserID, since) ELSE NoError,
                  res |-> sp.resp, frames |-> l.frames, trace |-> l.trace]

\* every result ProcessResponse can produce (over the map iteration orders)
ProcessOutcomes(res, since, frames, lst) ==
    LET sp == shouldProcessResponse(res, since)
    IN  {ProcessResponse(res, since, frames, lst, oj, oi, ol) :
            oj \in Orders(DOMAIN sp.resp.Frames.Join),
            oi \in Orders(DOMAIN sp.resp.Frames.Invite),
            ol \in Orders(DOMAIN sp.resp.Frames.Leave)}

\* variant: a new registration replaces the earlier ones of the type
OnEventTypeOpReplace(lst, eventType, callback) ==
    LET base == IF eventType \in DOMAIN lst THEN lst
                ELSE (eventType :> << >>) @@ lst
    IN  [base EXCEPT ![eventType] = << callback >>]

OnEventTypeOp(lst, eventType, callback) ==
    LET base == IF eventType \in DOMAIN lst THEN lst
                ELSE (eventType :> << >>) @@ lst
    IN  [base EXCEPT ![eventType] = Append(@, callback)]

\* ------------------------------------------------ what the server can send
BatchEmpty == Frames(EmptyMap, EmptyMap, EmptyMap)

E_join == Ev(MemberType, UserID, "join")
E_leave == Ev(MemberType, UserID, "leave")
E_odd == Ev(MemberType, UserID, NotString)
E_other == Ev(MemberType, OtherUser, "join")
E_msg == Ev(MsgType, NoKey, Absent)

\* a joined frame with one state event, one message and one ephemeral event
BatchMsg ==
    Frames("r1" :> JoinData(<< E_other >>, << E_msg >>, << E_msg >>),
           EmptyMap, EmptyMap)

\* a joined frame whose State subset holds an event without a state key
BatchBadState ==
    Frames("r1" :> JoinData(<< E_msg >>, NoEvents, NoEvents),
           EmptyMap, EmptyMap)

Batches == {BatchMsg, BatchBadState}

\* ------------------------------------------------------------- the state
Idle == [p \in Procs |-> "idle"]

NoResp == [NextBatch |-> Empty, Frames |-> BatchEmpty]
NoRequest == [since |-> -1, filter |-> NoFilter, kind |-> "none"]   \* nothing sent yet
\* the arguments of a direct ProcessResponse call: none made yet
NoInput == [res |-> NoResp, frames |-> EmptyMap]

Init ==
    /\ syncingID = Zero32
    /\ Store = NewInMemoryStore
    /\ listeners = EmptyMap
    /\ pc = Idle
    /\ token = [p \in Procs |-> Zero32]
    /\ nextBatch = [p \in Procs |-> Empty]
    /\ filterID = [p \in Procs |-> NoFilter]
    /\ resSync = [p \in Procs |-> NoResp]
    /\ ret = [p \in Procs |-> "none"]
    /\ calls = 0
    /\ hist = [reconciled |-> [s \in 0..MaxPos |-> 0],
               sent |-> [p \in Procs |-> NoRequest],
               stop |-> [p \in Procs |-> "no"],
               trace |-> << >>,
               err |-> NoError,
               input |-> NoInput,
               issued |-> Zero32,
               reads |-> [p \in Procs |-> 0]]
    /\ loopVar \in LoopVarModes

\* variant: the counter flips between two values
incrementSyncingIDToggle(id) == IF id = Zero32 THEN Zero32 + 1 ELSE Zero32

\* cli.incrementSyncingID(): one atomic step under syncingMutex
incrementSyncingID(id) == IF id = Max32 THEN Zero32 ELSE id + 1

\* the query of cli.SyncRequest(30000, nextBatch, filterID, false, ""); kind
\* records which iteration sent it: the "first" of a Sync() call, the "next"
\* after a reconciled response, or a "retry" after a failed fetch
SyncRequest(since, filter, kind) ==
    [since |-> since, filter |-> filter, kind |-> kind]

\* the request goes out: the loop is blocked in the long poll; reads counts
\* the getSyncingID() calls the loop has made since its last request
Issue(p, since, filter, kind) ==
    hist' = [hist EXCEPT !.sent[p] = SyncRequest(since, filter, kind),
                         !.reads[p] = 0]

RECURSIVE SumLen(_, _)
SumLen(lst, types) ==
    IF types = {} THEN 0
    ELSE LET t == CHOOSE x \in types : TRUE
         IN  Len(lst[t]) + SumLen(lst, types \ {t})

\* the number of registered callbacks
NumListeners(lst) == SumLen(lst, DOMAIN lst)

\* how many registrations are explored: more when the registry is used alone
RegBound == IF pc[1] = "registry" THEN MaxRegs ELSE MaxListeners

\* DefaultSyncer.OnEventType; subscribers register before syncing starts
OnEventType(eventType, callback) ==
    /\ calls = 0
    /\ NumListeners(listeners) < RegBound
    /\ listeners' = OnEventTypeOp(listeners, eventType, callback)
    /\ UNCHANGED <<loopVar, syncingID, Store, pc, token, nextBatch, filterID, resSync,
                   ret, calls, hist>>

\* Sync() returns r: its locals go out of scope
Return(p, r, h) ==
    /\ pc' = [pc EXCEPT ![p] = "done"]
    /\ ret' = [ret EXCEPT ![p] = r]
    /\ nextBatch' = [nextBatch EXCEPT ![p] = Empty]
    /\ filterID' = [filterID EXCEPT ![p] = NoFilter]
    /\ resSync' = [resSync EXCEPT ![p] = NoResp]
    /\ hist' = [h EXCEPT !.sent[p] = NoRequest, !.stop[p] = "no",
                         !.reads[p] = 0]

\* observation: the highest value incrementSyncingID() has returned so far
Issued(h, id) == [h EXCEPT !.issued = IF id > @ THEN id ELSE @]

\* Sync() line 114: syncingID := cli.incrementSyncingID()
SyncStart(p) ==
    /\ pc[p] \in {"idle", "done"}
    /\ calls < MaxCalls
    /\ syncingID' = incrementSyncingID(syncingID)
    /\ token' = [token EXCEPT ![p] = syncingID']
    /\ pc' = [pc EXCEPT ![p] = "load"]
    /\ calls' = calls + 1
    /\ ret' = [ret EXCEPT ![p] = "none"]
    /\ hist' = Issued(hist, syncingID')
    /\ UNCHANGED <<loopVar, Store, listeners, nextBatch, filterID, resSync>>

\* variant: the loop starts from the empty position instead of the saved one
LoadFromStart(p) ==
    /\ pc[p] = "load"
    /\ nextBatch' = [nextBatch EXCEPT ![p] = Empty]
    /\ filterID' = [filterID EXCEPT ![p] = LoadFilterID(Store, UserID)]
    /\ IF filterID'[p] = NoFilter
       THEN /\ pc' = [pc EXCEPT ![p] = "creating"]
            /\ UNCHANGED hist
       ELSE /\ pc' = [pc EXCEPT ![p] = "inflight"]
            /\ Issue(p, nextBatch'[p], filterID'[p], "first")
    /\ UNCHANGED <<loopVar, syncingID, Store, listeners, token, resSync, ret, calls>>

\* Sync() lines 115-118: load the position and the filter ID; with a cached
\* filter ID the first SyncRequest goes out, otherwise CreateFilter does
Load(p) ==
    /\ pc[p] = "load"
    /\ nextBatch' = [nextBatch EXCEPT ![p] = LoadNextBatch(Store, UserID)]
    /\ filterID' = [filterID EXCEPT ![p] = LoadFilterID(Store, UserID)]
    /\ IF filterID'[p] = NoFilter
       THEN /\ pc' = [pc EXCEPT ![p] = "creating"]
            /\ UNCHANGED hist
       ELSE /\ pc' = [pc EXCEPT ![p] = "inflight"]
            /\ Issue(p, nextBatch'[p], filterID'[p], "first")
    /\ UNCHANGED <<loopVar, syncingID, Store, listeners, token, resSync, ret, calls>>

\* the IDs the server can answer a CreateFilter call with: "f1" for the first
\* filter of the user; for a later one the same ID again or the next one (the
\* Store holds an ID exactly when a filter was created before)
NewFilterIDs(store) ==
    IF LoadFilterID(store, UserID) = NoFilter THEN {"f1"} ELSE FilterIDs

\* Sync() lines 119-124, CreateFilter succeeded
CreateFilterOk(p) ==
    /\ pc[p] = "creating"
    /\ \E id \in NewFilterIDs(Store) :
         /\ filterID' = [filterID EXCEPT ![p] = id]
         /\ Store' = SaveFilterID(Store, UserID, id)
    /\ pc' = [pc EXCEPT ![p] = "inflight"]
    /\ Issue(p, nextBatch[p], filterID'[p], "first")
    /\ UNCHANGED <<loopVar, syncingID, listeners, token, nextBatch, resSync, ret, calls>>

\* variant: the CreateFilter error is ignored and the loop is entered
CreateFilterFailIgnored(p) ==
    /\ pc[p] = "creating"
    /\ pc' = [pc EXCEPT ![p] = "inflight"]
    /\ Issue(p, nextBatch[p], filterID[p], "first")
    /\ UNCHANGED <<loopVar, syncingID, Store, listeners, token, nextBatch, filterID,
                   resSync, ret, calls>>

\* Sync() lines 120-122, CreateFilter failed
CreateFilterFail(p) ==
    /\ pc[p] = "creating"
    /\ Return(p, "errFilter", hist)
    /\ UNCHANGED <<loopVar, syncingID, Store, listeners, token, calls>>

\* observation: a network call of a loop returned after StopSync() was called
\* on that running loop
Returned(stop) == IF stop = "no" THEN "no" ELSE "returned"

\* line 128: SyncRequest returns a response
FetchOk(p) ==
    /\ pc[p] = "inflight"
    /\ \E nb \in (hist.sent[p].since + 1)..MaxPos, b \in Batches :
         resSync' = [resSync EXCEPT ![p] = [NextBatch |-> nb, Frames |-> b]]
    /\ pc' = [pc EXCEPT ![p] = "check"]
    /\ hist' = [hist EXCEPT !.stop[p] = Returned(@)]
    /\ UNCHANGED <<loopVar, syncingID, Store, listeners, token, nextBatch, filterID,
                   ret, calls>>

\* variant: the token is read after a failed fetch as well
FetchFailChecked(p) ==
    /\ pc[p] = "inflight"
    /\ IF syncingID # token[p]
       THEN Return(p, "nil", hist)
       ELSE /\ pc' = [pc EXCEPT ![p] = "failed"]
            /\ hist' = [hist EXCEPT !.stop[p] = Returned(@)]
            /\ UNCHANGED <<nextBatch, filterID, resSync, ret>>
    /\ UNCHANGED <<loopVar, syncingID, Store, listeners, token, calls>>

\* line 128: SyncRequest returns an error
FetchFail(p) ==
    /\ pc[p] = "inflight"
    /\ pc' = [pc EXCEPT ![p] = "failed"]
    /\ hist' = [hist EXCEPT !.stop[p] = Returned(@)]
    /\ UNCHANGED <<loopVar, syncingID, Store, listeners, token, nextBatch, filterID,
                   resSync, ret, calls>>

\* variant: Sync() returns the fetch error instead of the policy's error
OnFailedSyncReturnsFetchError(p, verdict) ==
    /\ pc[p] = "failed"
    /\ IF verdict = "retry"
       THEN /\ pc' = [pc EXCEPT ![p] = "sleep"]
            /\ UNCHANGED <<ret, nextBatch, filterID, resSync, hist>>
       ELSE Return(p, "errFetch", hist)
    /\ UNCHANGED <<loopVar, syncingID, Store, listeners, token, calls>>

\* lines 130-134: the failure policy; "retry" is (duration, nil)
OnFailedSync(p, verdict) ==
    /\ pc[p] = "failed"
    /\ IF verdict = "retry"
       THEN /\ pc' = [pc EXCEPT ![p] = "sleep"]
            /\ UNCHANGED <<ret, nextBatch, filterID, resSync, hist>>
       ELSE Return(p, "errPolicy", hist)
    /\ UNCHANGED <<loopVar, syncingID, Store, listeners, token, calls>>

\* variant: the retry restarts from the empty position
SleepDoneFromStart(p) ==
    /\ pc[p] = "sleep"
    /\ pc' = [pc EXCEPT ![p] = "inflight"]
    /\ nextBatch' = [nextBatch EXCEPT ![p] = Empty]
    /\ Issue(p, Empty, filterID[p], "retry")
    /\ UNCHANGED <<loopVar, syncingID, Store, listeners, token, filterID,
                   resSync, ret, calls>>

\* lines 134-135 and 128: time.Sleep returns, continue, the next SyncRequest
SleepDone(p) ==
    /\ pc[p] = "sleep"
    /\ pc' = [pc EXCEPT ![p] = "inflight"]
    /\ Issue(p, nextBatch[p], filterID[p], "retry")
    /\ UNCHANGED <<loopVar, syncingID, Store, listeners, token, nextBatch, filterID,
                   resSync, ret, calls>>

\* variant: the response is kept whatever the live syncingID is
CheckNoStaleness(p) ==
    /\ pc[p] = "check"
    /\ pc' = [pc EXCEPT ![p] = "save"]
    /\ UNCHANGED <<loopVar, syncingID, Store, listeners, token, nextBatch, filterID,
                   resSync, ret, calls, hist>>

\* lines 141-143: the staleness check, the one call of getSyncingID()
Check(p) ==
    /\ pc[p] = "check"
    /\ IF syncingID # token[p]
       THEN Return(p, "nil", hist)
       ELSE /\ pc' = [pc EXCEPT ![p] = "save"]
            /\ hist' = [hist EXCEPT !.reads[p] = @ + 1]
            /\ UNCHANGED <<ret, nextBatch, filterID, resSync>>
    /\ UNCHANGED <<loopVar, syncingID, Store, listeners, token, calls>>

\* variant: the position is not written before ProcessResponse is called
SaveSkipped(p) ==
    /\ pc[p] = "save"
    /\ pc' = [pc EXCEPT ![p] = "process"]
    /\ UNCHANGED <<loopVar, syncingID, Store, listeners, token, nextBatch, filterID,
                   resSync, ret, calls, hist>>

\* line 148: cli.Store.SaveNextBatch(cli.UserID, resSync.NextBatch)
Save(p) ==
    /\ pc[p] = "save"
    /\ Store' = SaveNextBatch(Store, UserID, resSync[p].NextBatch)
    /\ pc' = [pc EXCEPT ![p] = "process"]
    /\ UNCHANGED <<loopVar, syncingID, listeners, token, nextBatch, filterID, resSync,
                   ret, calls, hist>>

\* variant: ProcessResponse is given the NextBatch of the response as since
ProcessSinceFromResponse(p) ==
    /\ pc[p] = "process"
    /\ \E out \in ProcessOutcomes(resSync[p], resSync[p].NextBatch,
                                 Store.Frames, listeners) :
         /\ Store' = [Store EXCEPT !.Frames = out.frames]
         /\ LET h == [hist EXCEPT
                        !.reconciled[resSync[p].NextBatch] = @ + 1,
                        !.trace = out.trace,
                        !.err = IF out.err # NoError THEN out.err ELSE @]
            IN  IF out.err # NoError
                THEN Return(p, "errProcess", h)
                ELSE /\ nextBatch' = [nextBatch EXCEPT ![p] = resSync[p].NextBatch]
                     /\ resSync' = [resSync EXCEPT ![p] = NoResp]
                     /\ pc' = [pc EXCEPT ![p] = "inflight"]
                     /\ hist' = [h EXCEPT
                                   !.sent[p] = SyncRequest(nextBatch'[p], filterID[p], "next"),
                                   !.reads[p] = 0]
                     /\ UNCHANGED <<ret, filterID>>
    /\ UNCHANGED <<loopVar, syncingID, listeners, token, calls>>

\* lines 149-153: ProcessResponse, then either return its error or advance
\* the local position and send the next SyncRequest
Process(p) ==
    /\ pc[p] = "process"
    /\ \E out \in ProcessOutcomes(resSync[p], nextBatch[p],
                                 Store.Frames, listeners) :
         /\ Store' = [Store EXCEPT !.Frames = out.frames]
         /\ LET h == [hist EXCEPT
                        !.reconciled[nextBatch[p]] = @ + 1,
                        !.trace = out.trace,
                        !.err = IF out.err # NoError THEN out.err ELSE @]
            IN  IF out.err # NoError
                THEN Return(p, "errProcess", h)
                ELSE /\ nextBatch' = [nextBatch EXCEPT ![p] = resSync[p].NextBatch]
                     /\ resSync' = [resSync EXCEPT ![p] = NoResp]
                     /\ pc' = [pc EXCEPT ![p] = "inflight"]
                     /\ hist' = [h EXCEPT
                                   !.sent[p] = SyncRequest(nextBatch'[p], filterID[p], "next"),
                                   !.reads[p] = 0]
                     /\ UNCHANGED <<ret, filterID>>
    /\ UNCHANGED <<loopVar, syncingID, listeners, token, calls>>

\* variant: StopSync() leaves syncingID as it is
StopSyncNoIncrement ==
    /\ calls < MaxCalls
    /\ calls' = calls + 1
    /\ hist' = [hist EXCEPT !.stop = [p \in Procs |->
                    IF pc[p] \in {"idle", "done"} \/ @[p] # "no"
                    THEN @[p] ELSE "stopped"]]
    /\ UNCHANGED <<loopVar, syncingID, Store, listeners, pc, token, nextBatch, filterID,
                   resSync, ret>>

\* StopSync(): cli.incrementSyncingID()
StopSync ==
    /\ calls < MaxCalls
    /\ syncingID' = incrementSyncingID(syncingID)
    /\ calls' = calls + 1
    /\ hist' = Issued([hist EXCEPT !.stop = [p \in Procs |->
                           IF pc[p] \in {"idle", "done"} \/ @[p] # "no"
                           THEN @[p] ELSE "stopped"]],
                      syncingID')
    /\ UNCHANGED <<loopVar, Store, listeners, pc, token, nextBatch, filterID, resSync,
                   ret>>

Next ==
    \/ \E t \in EventTypes, c \in Callbacks : OnEventType(t, c)
    \/ \E p \in Procs : SyncStart(p)
    \/ \E p \in Procs : Load(p)
    \/ \E p \in Procs : CreateFilterOk(p)
    \/ \E p \in Procs : CreateFilterFail(p)
    \/ \E p \in Procs : FetchOk(p)
    \/ \E p \in Procs : FetchFail(p)
    \/ \E p \in Procs, v \in {"retry", "fatal"} : OnFailedSync(p, v)
    \/ \E p \in Procs : SleepDone(p)
    \/ \E p \in Procs : Check(p)
    \/ \E p \in Procs : Save(p)
    \/ \E p \in Procs : Process(p)
    \/ StopSync

Spec == Init /\ [][Next]_vars

\* ------------------------------------------- one goroutine calling Sync()
\* Sync() is called, and called again after it returned, by one goroutine;
\* StopSync() comes from elsewhere.
Loop(p) ==
    \/ Load(p)
    \/ CreateFilterOk(p)
    \/ CreateFilterFail(p)
    \/ FetchOk(p)
    \/ FetchFail(p)
    \/ \E v \in {"retry", "fatal"} : OnFailedSync(p, v)
    \/ SleepDone(p)
    \/ Check(p)
    \/ Save(p)
    \/ Process(p)

NextSeq ==
    \/ \E t \in EventTypes, c \in Callbacks : OnEventType(t, c)
    \/ SyncStart(1)
    \/ Loop(1)
    \/ StopSync

SpecSeq == Init /\ [][NextSeq]_vars

\* the goroutine keeps running: every SyncRequest, CreateFilter and time.Sleep
\* returns, and every other statement of Sync() is executed
FairSeq == SpecSeq /\ WF_vars(Loop(1))

\* ------------------------------------- a client that has been used for long
\* the client after 2^32 - 2 calls of StopSync(): the counter is one below its
\* highest value and nothing else has changed since construction
LongUsed == Max32 - 1

InitWrap ==
    /\ syncingID = LongUsed
    /\ Store = NewInMemoryStore
    /\ listeners = EmptyMap
    /\ pc = Idle
    /\ token = [p \in Procs |-> Zero32]
    /\ nextBatch = [p \in Procs |-> Empty]
    /\ filterID = [p \in Procs |-> NoFilter]
    /\ resSync = [p \in Procs |-> NoResp]
    /\ ret = [p \in Procs |-> "none"]
    /\ calls = 0
    /\ hist = [reconciled |-> [s \in 0..MaxPos |-> 0],
               sent |-> [p \in Procs |-> NoRequest],
               stop |-> [p \in Procs |-> "no"],
               trace |-> << >>,
               err |-> NoError,
               input |-> NoInput,
               issued |-> LongUsed,
               reads |-> [p \in Procs |-> 0]]
    /\ loopVar \in LoopVarModes

SpecWrap == InitWrap /\ [][NextSeq]_vars

\* ------------------------------ a Sync() call overtaken by a full lap
\* goroutine 1 called Sync() on a new client, got token 1 and is waiting for
\* CreateFilter to return; since then StopSync() was called 2^32 - 1 times, so
\* that the counter has gone once round and stands at 0 again.  calls counts
\* the calls made modulo 2^32.
InitLap ==
    /\ syncingID = Zero32
    /\ Store = NewInMemoryStore
    /\ listeners = EmptyMap
    /\ pc = [p \in Procs |-> IF p = 1 THEN "creating" ELSE "idle"]
    /\ token = [p \in Procs |-> IF p = 1 THEN Zero32 + 1 ELSE Zero32]
    /\ nextBatch = [p \in Procs |-> Empty]
    /\ filterID = [p \in Procs |-> NoFilter]
    /\ resSync = [p \in Procs |-> NoResp]
    /\ ret = [p \in Procs |-> "none"]
    /\ calls = 0
    /\ hist = [reconciled |-> [s \in 0..MaxPos |-> 0],
               sent |-> [p \in Procs |-> NoRequest],
               stop |-> [p \in Procs |-> IF p = 1 THEN "stopped" ELSE "no"],
               trace |-> << >>,
               err |-> NoError,
               input |-> NoInput,
               issued |-> Max32,
               reads |-> [p \in Procs |-> 0]]
    /\ loopVar \in LoopVarModes

\* Sync() and StopSync() calls go on from there; listeners are registered
\* before the first Sync() call only
NextLap ==
    \/ \E p \in Procs : SyncStart(p)
    \/ \E p \in Procs : Loop(p)
    \/ StopSync

SpecLap == InitLap /\ [][NextLap]_vars

\* --------------------------------------- ProcessResponse called on its own
TimelineChoices ==
    { NoEvents, << E_msg >>, << E_join >>, << E_join, E_msg >>,
      << E_msg, E_join >>, << E_join, E_leave >>, << E_leave >>,
      << E_odd, E_msg >>, << E_join, E_odd >>, << E_other >> }

StateChoices ==
    { NoEvents, << E_other >>, << E_msg >>, << E_other, E_leave >>,
      << E_other, E_msg >> }

EphemeralChoices == { NoEvents, << E_msg >> }

LeaveChoices ==
    { NoEvents, << E_msg >>, << E_leave >>, << E_msg, E_leave >>,
      << E_leave, E_msg >> }

\* a bucket holding the frame id with one of the given contents, or without it
Bucket(id, contents) == {EmptyMap} \cup {id :> c : c \in contents}

RecJoin ==
    {a @@ b :
       a \in Bucket("r1", {JoinData(st, tl, eph) : st \in StateChoices,
                             tl \in TimelineChoices, eph \in EphemeralChoices}),
       b \in Bucket("r2", {JoinData(<< E_other >>, << E_msg >>, NoEvents)})}

RecInvite == Bucket("r1", {InviteData(st) : st \in StateChoices})

RecLeave ==
    Bucket("r1", {LeaveData(st, tl) : st \in {NoEvents, << E_other >>},
                                      tl \in LeaveChoices})

RecBatches == {Frames(j, i, l) : j \in RecJoin, i \in RecInvite, l \in RecLeave}

\* the frames a Store can hold when the call is made
RecFrames ==
    { EmptyMap,
      "r1" :> UpdateState(NewFrame("r1"),
                          [E_leave EXCEPT !.FrameID = "r1"]).frame }

RecListeners ==
    { EmptyMap,
      MsgType :> << "cbOk" >>,
      MemberType :> << "cbOk" >>,
      (MsgType :> << "cbOk" >>) @@ (MemberType :> << "cbOk" >>),
      (MsgType :> << "cbOk", "cbPanic" >>) @@ (MemberType :> << "cbOk" >>) }

InitRec ==
    /\ syncingID = Zero32
    /\ Store \in {[Filters |-> EmptyMap, NextBatch |-> EmptyMap, Frames |-> f] :
                    f \in RecFrames}
    /\ listeners \in RecListeners
    /\ pc = [p \in Procs |-> IF p = 1 THEN "reconcile" ELSE "idle"]
    /\ token = [p \in Procs |-> Zero32]
    /\ nextBatch \in {[p \in Procs |-> IF p = 1 THEN s ELSE Empty] : s \in 0..1}
    /\ filterID = [p \in Procs |-> NoFilter]
    /\ resSync \in {[p \in Procs |-> IF p = 1
                                     THEN [NextBatch |-> MaxPos, Frames |-> b]
                                     ELSE NoResp] : b \in RecBatches}
    /\ ret = [p \in Procs |-> "none"]
    /\ calls = 0
    /\ hist = [reconciled |-> [s \in 0..MaxPos |-> 0],
               sent |-> [p \in Procs |-> NoRequest],
               stop |-> [p \in Procs |-> "no"],
               trace |-> << >>,
               err |-> NoError,
               input |-> NoInput,
               issued |-> Zero32,
               reads |-> [p \in Procs |-> 0]]
    /\ loopVar \in LoopVarModes

\* s.ProcessResponse(res, since) called with res = resSync[p] and
\* since = nextBatch[p]; res is a pointer, the caller sees what was removed
Reconcile(p) ==
    /\ pc[p] = "reconcile"
    /\ \E out \in ProcessOutcomes(resSync[p], nextBatch[p],
                                 Store.Frames, listeners) :
         /\ Store' = [Store EXCEPT !.Frames = out.frames]
         /\ resSync' = [resSync EXCEPT ![p] = out.res]
         /\ ret' = [ret EXCEPT ![p] = IF out.err # NoError THEN "errProcess"
                                      ELSE "nil"]
         /\ hist' = [hist EXCEPT !.trace = out.trace, !.err = out.err,
                                 !.input = [res |-> resSync[p],
                                            frames |-> Store.Frames]]
    /\ pc' = [pc EXCEPT ![p] = "reconciled"]
    /\ UNCHANGED <<loopVar, syncingID, listeners, token, nextBatch, filterID, calls>>

NextRec == Reconcile(1)

SpecRec == InitRec /\ [][NextRec]_vars

\* ------------------------------------------- the Frame used on its own
\* the events a caller can hand to UpdateState
FrameEvents ==
    {Ev(MemberType, k, m) : k \in {UserID, OtherUser, NoKey},
                            m \in {"join", "leave", Absent, NotString}}
      \cup {Ev(MsgType, k, Absent) : k \in {UserID, NoKey}}

\* a frame made by NewFrame("r1"); hist.trace lists the UpdateState calls
InitFrame ==
    /\ syncingID = Zero32
    /\ Store = [NewInMemoryStore EXCEPT !.Frames = "r1" :> NewFrame("r1")]
    /\ listeners = EmptyMap
    /\ pc = [p \in Procs |-> IF p = 1 THEN "frame" ELSE "idle"]
    /\ token = [p \in Procs |-> Zero32]
    /\ nextBatch = [p \in Procs |-> Empty]
    /\ filterID = [p \in Procs |-> NoFilter]
    /\ resSync = [p \in Procs |-> NoResp]
    /\ ret = [p \in Procs |-> "none"]
    /\ calls = 0
    /\ hist = [reconciled |-> [s \in 0..MaxPos |-> 0],
               sent |-> [p \in Procs |-> NoRequest],
               stop |-> [p \in Procs |-> "no"],
               trace |-> << >>,
               err |-> NoError,
               input |-> NoInput,
               issued |-> Zero32,
               reads |-> [p \in Procs |-> 0]]
    /\ loopVar \in LoopVarModes

\* frame.UpdateState(&event) with an event of the caller's own; a call with
\* a nil StateKey panics after the map of the type was made
UpdateStateCall(p, event) ==
    /\ pc[p] = "frame"
    /\ Len(hist.trace) < MaxUpdates
    /\ LET u == UpdateState(Store.Frames["r1"], event)
       IN  /\ Store' = [Store EXCEPT !.Frames["r1"] = u.frame]
           /\ hist' = [hist EXCEPT !.trace = Append(@,
                          [op |-> "UpdateState", event |-> event,
                           panicked |-> u.panicked])]
    /\ UNCHANGED <<loopVar, syncingID, listeners, pc, token, nextBatch,
                   filterID, resSync, ret, calls>>

NextFrame == \E event \in FrameEvents : UpdateStateCall(1, event)

SpecFrame == InitFrame /\ [][NextFrame]_vars

\* ---------------------------------------- the listener registry on its own
\* the events handed to notifyListeners
DispatchEvents == { [E_msg EXCEPT !.FrameID = "r1"],
                    [E_other EXCEPT !.FrameID = "r1"] }

InitReg ==
    /\ syncingID = Zero32
    /\ Store = NewInMemoryStore
    /\ listeners = EmptyMap
    /\ pc = [p \in Procs |-> IF p = 1 THEN "registry" ELSE "idle"]
    /\ token = [p \in Procs |-> Zero32]
    /\ nextBatch = [p \in Procs |-> Empty]
    /\ filterID = [p \in Procs |-> NoFilter]
    /\ resSync = [p \in Procs |-> NoResp]
    /\ ret = [p \in Procs |-> "none"]
    /\ calls = 0
    /\ hist = [reconciled |-> [s \in 0..MaxPos |-> 0],
               sent |-> [p \in Procs |-> NoRequest],
               stop |-> [p \in Procs |-> "no"],
               trace |-> << >>,
               err |-> NoError,
               input |-> NoInput,
               issued |-> Zero32,
               reads |-> [p \in Procs |-> 0]]
    /\ loopVar \in LoopVarModes

\* s.notifyListeners(&event); hist.trace is what this call did
Dispatch(p, event) ==
    /\ pc[p] = "registry"
    /\ hist' = [hist EXCEPT !.trace =
                  notifyListeners(PState(Store.Frames), listeners, event,
                                  "direct", "direct").trace]
    /\ UNCHANGED <<loopVar, syncingID, Store, listeners, pc, token, nextBatch,
                   filterID, resSync, ret, calls>>

NextReg ==
    \/ \E t \in EventTypes, c \in Callbacks : OnEventType(t, c)
    \/ \E event \in DispatchEvents : Dispatch(1, event)

SpecReg == InitReg /\ [][NextReg]_vars

\* ================================================================ claims

\* a Sync() call of q that obtained its token after the running loop p did
Superseded(p) ==
    /\ pc[p] \notin {"idle", "done"}
    /\ \E q \in Procs \ {p} : pc[q] # "idle" /\ token[q] > token[p]

\* C1: once a second Sync() has obtained its token, the first loop makes no
\* further call of ProcessResponse, and at its next successful fetch it returns
\* nil.
C1_NoReconcileAfterSecondStart ==
    [][\A p \in Procs :
         /\ (Superseded(p) /\ pc[p] = "process") => pc'[p] = "process"
         /\ (Superseded(p) /\ pc[p] = "check" /\ pc'[p] # "check")
               => (pc'[p] = "done" /\ ret'[p] = "nil")]_vars

\* C2: across the loops, the response for one since-position is reconciled at
\* most once.
C2_NoDoubleProcessing ==
    \A s \in 1..MaxPos : hist.reconciled[s] <= 1

\* C3: a loop whose fetch returned while the live syncingID differs from its
\* token returns nil, and that step leaves the Store (position, filter, frames
\* and their state tables) as it was and makes no reconciliation or listener
\* call.
C3_StaleLoopHasNoSideEffects ==
    [][\A p \in Procs :
         (pc[p] = "check" /\ syncingID # token[p] /\ pc'[p] # "check")
            => /\ pc'[p] = "done"
               /\ ret'[p] = "nil"
               /\ Store' = Store
               /\ hist'.reconciled = hist.reconciled
               /\ hist'.trace = hist.trace]_vars

\* a loop has returned nil: it saw a stale token after a successful fetch
C3_Witness == \E p \in Procs : pc[p] = "done" /\ ret[p] = "nil"

C5_PositionPersistedBeforeReconcile ==
    [][\A p \in Procs :
         (pc[p] = "process" /\ pc'[p] = "done")
            => (ret'[p] = "errProcess"
                /\ LoadNextBatch(Store', UserID) = resSync[p].NextBatch)]_vars

\* C6: after a failed fetch for which the policy says retry, the loop sleeps and
\* sends the next SyncRequest with the same since-position and filter ID; from
\* the failure to the retry its local position is unchanged, the Store is not
\* written and nothing is reconciled.
C6_RetrySamePosition ==
    [][\A p \in Procs :
         /\ (pc[p] \in {"inflight", "failed"} /\ pc'[p] \in {"failed", "sleep"}
             /\ pc'[p] # pc[p])
               => /\ nextBatch'[p] = nextBatch[p]
                  /\ filterID'[p] = filterID[p]
                  /\ Store' = Store
                  /\ hist'.reconciled = hist.reconciled
                  /\ hist'.trace = hist.trace
                  /\ hist'.sent = hist.sent
         /\ (pc[p] = "sleep" /\ pc'[p] # "sleep")
               => /\ pc'[p] = "inflight"
                  /\ hist'.sent[p].kind = "retry"
                  /\ hist'.sent[p].since = hist.sent[p].since
                  /\ hist'.sent[p].filter = hist.sent[p].filter
                  /\ nextBatch'[p] = nextBatch[p]
                  /\ Store' = Store
                  /\ hist'.reconciled = hist.reconciled
                  /\ hist'.trace = hist.trace]_vars

\* a retry is in flight for a position the loop had advanced to
C6_Witness ==
    \E p \in Procs : /\ pc[p] = "inflight"
                     /\ hist.sent[p].kind = "retry"
                     /\ hist.sent[p].since # Empty

\* C7: when the failure policy returns an error, Sync() returns that error
\* straight away: no sleep, no further SyncRequest, no write to the Store.
C7_FatalFailureReturnsPolicyError ==
    [][\A p \in Procs :
         (pc[p] = "failed" /\ pc'[p] # "failed")
            => \/ pc'[p] = "sleep" /\ ret'[p] = "none"
               \/ /\ pc'[p] = "done"
                  /\ ret'[p] = "errPolicy"
                  /\ Store' = Store
                  /\ hist'.reconciled = hist.reconciled
                  /\ hist'.trace = hist.trace]_vars

C7_Witness == \E p \in Procs : pc[p] = "done" /\ ret[p] = "errPolicy"

\* C8: with no filter ID in the Store, a failing CreateFilter makes Sync()
\* return that error before any SyncRequest was sent and without a write of
\* the filter ID or the position; only a successful CreateFilter saves an ID.
C8_FilterFailureIsFatal ==
    [][\A p \in Procs :
         /\ (pc[p] = "load" /\ pc'[p] = "creating")
               => (LoadFilterID(Store, UserID) = NoFilter /\ Store' = Store)
         /\ (pc[p] = "creating" /\ pc'[p] # "creating")
               => \/ /\ pc'[p] = "done"
                     /\ ret'[p] = "errFilter"
                     /\ hist.sent[p] = NoRequest
                     /\ Store' = Store
                  \/ /\ pc'[p] = "inflight"
                     /\ filterID'[p] # NoFilter
                     /\ LoadFilterID(Store', UserID) = filterID'[p]]_vars

\* Sync() returned the CreateFilter error and the Store is still empty
C8_Witness ==
    \E p \in Procs : /\ pc[p] = "done" /\ ret[p] = "errFilter"
                     /\ Store = NewInMemoryStore

C10_InitialSyncSkip ==
    [][\A p \in Procs :
         (pc[p] = "reconcile" /\ nextBatch[p] = Empty /\ pc'[p] # "reconcile")
            => /\ ret'[p] = "nil"
               /\ Store' = Store
               /\ hist'.trace = << >>
               /\ resSync'[p] = resSync[p]]_vars

\* the call returned for a response with a join-race frame, listeners present
C10_Witness ==
    /\ pc[1] = "reconciled"
    /\ nextBatch[1] = Empty
    /\ "r1" \in DOMAIN resSync[1].Frames.Join
    /\ resSync[1].Frames.Join["r1"].Timeline = << E_msg, E_join >>
    /\ "r1" \in DOMAIN resSync[1].Frames.Invite
    /\ MsgType \in DOMAIN listeners

\* ------------------------------------------------------------------------
\* a direct ProcessResponse call with a non-empty since has returned
Reconciled == pc[1] = "reconciled" /\ nextBatch[1] # Empty

\* the timeline holds a member event of the syncing user with membership join
HasUserJoin(events) ==
    \E i \in 1..Len(events) :
       /\ events[i].Type = MemberType
       /\ events[i].StateKey = UserID
       /\ events[i].Membership = "join"

\* the listener calls of the trace
Calls(trace) == {i \in 1..Len(trace) : trace[i].op = "call"}

\* the state-table updates of the trace
Updates(trace) == {i \in 1..Len(trace) : trace[i].op = "update"}

FrameBefore(frames, f) == IF f \in DOMAIN frames THEN frames[f] ELSE NewFrame(f)

\* the listener calls an event of the left timeline is due
CallsDue(lst, event, bucket, part) ==
    IF event.Type \notin DOMAIN lst THEN << >>
    ELSE [j \in 1..Len(lst[event.Type]) |->
            [op |-> "call", bucket |-> bucket, part |-> part,
             fn |-> lst[event.Type][j], event |-> event, held |-> event]]

\* what the left-frame rule asks of a timeline: every event with a state key,
\* in order, gets the frame ID, is put in the table at (type, state key) and
\* goes to the listeners of its type; the others do nothing
RECURSIVE LeftDue(_, _, _, _, _)
LeftDue(acc, lst, f, events, i) ==
    IF i > Len(events) THEN acc
    ELSE IF events[i].StateKey = NoKey
         THEN LeftDue(acc, lst, f, events, i + 1)
         ELSE LET event == [events[i] EXCEPT !.FrameID = f]
              IN  LeftDue(
                    [frame |-> UpdateState(acc.frame, event).frame,
                     trace |-> acc.trace
                               \o << [op |-> "update", bucket |-> "leave",
                                      part |-> "timeline", event |-> event] >>
                               \o CallsDue(lst, event, "leave", "timeline")],
                    lst, f, events, i + 1)

\* the entries of the trace made for frame f in the left bucket
LeftTrace(trace, f) ==
    SelectSeq(trace, LAMBDA e : /\ e.op # "save"
                                /\ e.bucket = "leave"
                                /\ e.event.FrameID = f)

\* C12: after a ProcessResponse call that returned nil, for a frame that is in
\* the left bucket only: its state table is the table before the call updated
\* at (type, state key) with each timeline event that has a state key (frame
\* ID attached), in order; exactly these events were dispatched to the
\* listeners of their type; timeline events without a state key and the events
\* of the State subset changed nothing in the table and reached no listener.
C12_LeftFrameFilter ==
    (Reconciled /\ ret[1] = "nil") =>
      \A f \in DOMAIN resSync[1].Frames.Leave :
         (f \notin DOMAIN resSync[1].Frames.Join
          /\ f \notin DOMAIN resSync[1].Frames.Invite)
            => LET due == LeftDue([frame |-> FrameBefore(hist.input.frames, f),
                                   trace |-> << >>],
                                  listeners, f,
                                  resSync[1].Frames.Leave[f].Timeline, 1)
               IN  /\ f \in DOMAIN Store.Frames
                   /\ Store.Frames[f] = due.frame
                   /\ LeftTrace(hist.trace, f) = due.trace

\* ------------------------------------------------------------------------
\* the frame the UpdateState calls were made on
TheFrame == Store.Frames["r1"]

\* the event of the last UpdateState call of the log with this type and state
\* key, or the nil event
RECURSIVE LastCall(_, _, _, _)
LastCall(log, i, eventType, stateKey) ==
    IF i = 0 THEN NilEvent
    ELSE IF log[i].event.Type = eventType /\ log[i].event.StateKey = stateKey
         THEN log[i].event
         ELSE LastCall(log, i - 1, eventType, stateKey)

\* C13: after any sequence of UpdateState calls on a frame, GetStateEvent(type,
\* key) is the event of the last call made with that type and state key, and
\* nil when there was none; an earlier event of the same type and key is gone.
C13_ClobberUpdate ==
    pc[1] = "frame" =>
      \A t \in EventTypes \cup {"m.none"}, k \in {UserID, OtherUser, "@none"} :
         GetStateEvent(TheFrame, t, k) = LastCall(hist.trace, Len(hist.trace), t, k)

\* the same (type, key) was updated twice with different content, and another
\* key of the type in between
C13_Witness ==
    /\ pc[1] = "frame"
    /\ Len(hist.trace) = 3
    /\ hist.trace[1].event = Ev(MemberType, UserID, "join")
    /\ hist.trace[2].event = Ev(MemberType, OtherUser, "join")
    /\ hist.trace[3].event = Ev(MemberType, UserID, "leave")
    /\ GetStateEvent(TheFrame, MemberType, UserID) = Ev(MemberType, UserID, "leave")

\* C14: GetMembershipState(userID) is "leave" when the frame has no member
\* entry for the user, or one without a "membership" field or with one that is
\* not a string; otherwise it is the membership string of the entry.  It is
\* always a string.
C14_MembershipDefault ==
    pc[1] = "frame" =>
      \A u \in {UserID, OtherUser, "@none"} :
         LET has == /\ MemberType \in DOMAIN TheFrame.State
                    /\ u \in DOMAIN TheFrame.State[MemberType]
             got == GetMembershipState(TheFrame, u)
         IN  /\ got \notin {Absent, NotString}
             /\ ~has => got = "leave"
             /\ has =>
                  LET m == TheFrame.State[MemberType][u].Membership
                  IN  got = IF m \in {Absent, NotString} THEN "leave" ELSE m

\* one user's entry has a membership that is not a string, another user is
\* joined, a third has no entry
C14_Witness ==
    /\ pc[1] = "frame"
    /\ GetStateEvent(TheFrame, MemberType, UserID).Membership = NotString
    /\ GetMembershipState(TheFrame, UserID) = "leave"
    /\ GetMembershipState(TheFrame, OtherUser) = "join"
    /\ GetMembershipState(TheFrame, "@none") = "leave"

\* ------------------------------------------------------------------------
\* C15: when a listener panics during ProcessResponse, ProcessResponse returns
\* the error that names the user ID and the since-position of the call, and
\* Sync() returns that error: the loop ends and sends no further SyncRequest.
C15_CallbackFaultContained ==
    [][\A p \in Procs :
         (/\ pc[p] = "process"
          /\ pc'[p] # "process"
          /\ \E i \in Calls(hist'.trace) : hist'.trace[i].fn = "cbPanic")
            => /\ pc'[p] = "done"
               /\ ret'[p] = "errProcess"
               /\ hist'.err = [userID |-> UserID, since |-> nextBatch[p]]
               /\ hist'.sent[p] = NoRequest]_vars

\* Sync() has returned the error made of a listener's panic
C15_Witness ==
    \E p \in Procs :
       /\ pc[p] = "done"
       /\ ret[p] = "errProcess"
       /\ hist.err = [userID |-> UserID, since |-> 1]
       /\ Len(hist.trace) > 0
       /\ hist.trace[Len(hist.trace)].op = "call"
       /\ hist.trace[Len(hist.trace)].fn = "cbPanic"

\* ------------------------------------------------------------------------
\* the callbacks registered for a type, oldest first
Registered(lst, eventType) ==
    IF eventType \in DOMAIN lst THEN lst[eventType] ELSE << >>

\* the callbacks that run when fns are called in order: all of them, or those
\* up to the first one that panics
RECURSIVE RunUntilFault(_, _)
RunUntilFault(fns, i) ==
    IF i > Len(fns) THEN fns
    ELSE IF fns[i] = "cbPanic" THEN SubSeq(fns, 1, i)
    ELSE RunUntilFault(fns, i + 1)

\* C16: a registration appends the callback to the list of its type and
\* leaves the lists of the other types alone (no dedup); dispatching an event
\* calls the callbacks registered for its type, once per registration and in
\* registration order (a callback that panics ends the dispatch), each with
\* that event, and calls nothing when no callback is registered for the type.
C16_ListenerRegistry ==
    [][/\ listeners' # listeners
          => \E t \in EventTypes, c \in Callbacks :
                /\ DOMAIN listeners' = DOMAIN listeners \cup {t}
                /\ listeners'[t] = Append(Registered(listeners, t), c)
                /\ \A x \in DOMAIN listeners \ {t} : listeners'[x] = listeners[x]
       /\ hist'.trace # hist.trace
          => \E event \in DispatchEvents :
                LET due == RunUntilFault(Registered(listeners, event.Type), 1)
                IN  /\ Len(hist'.trace) = Len(due)
                    /\ \A i \in 1..Len(due) :
                          /\ hist'.trace[i].op = "call"
                          /\ hist'.trace[i].fn = due[i]
                          /\ hist'.trace[i].event = event]_vars

\* a callback registered twice for one type was called twice for one event,
\* and the callback of the other type was not called
C16_Witness ==
    /\ pc[1] = "registry"
    /\ Registered(listeners, MsgType) = << "cbOk", "cbOk" >>
    /\ Registered(listeners, MemberType) = << "cbPanic" >>
    /\ Len(hist.trace) = 2
    /\ hist.trace[1].fn = "cbOk"
    /\ hist.trace[2].fn = "cbOk"
    /\ hist.trace[2].event.Type = MsgType

\* ------------------------------------------------------------------------
\* Sync() is running in goroutine p
Running(p) == pc[p] \notin {"idle", "done"}

\* the step is a StopSync() call: the counter moved and no Sync() took a token
IsStopSync == syncingID' # syncingID /\ token' = token

SavedFilter(store) ==
    IF UserID \in DOMAIN store.Filters THEN store.Filters[UserID] ELSE NoFilter

\* C18: over any sequence of Sync() calls on one Store, CreateFilter is called
\* only by a Sync() that found no filter ID in the Store; once an ID is saved
\* it is never replaced by another creation, and every SyncRequest carries the
\* saved ID.
C18_FilterCreatedOnce ==
    /\ [][\A p \in Procs :
            (pc[p] # "creating" /\ pc'[p] = "creating")
               => SavedFilter(Store) = NoFilter]_vars
    /\ [][SavedFilter(Store) # NoFilter
            => SavedFilter(Store') = SavedFilter(Store)]_vars
    /\ [](\A p \in Procs :
            pc[p] = "inflight"
               => /\ hist.sent[p].filter # NoFilter
                  /\ hist.sent[p].filter = SavedFilter(Store))

\* ------------------------------------------------------------------------
\* the place of a bucket in the order joined, invited, left
Rank(bucket) == IF bucket = "join" THEN 1 ELSE IF bucket = "invite" THEN 2 ELSE 3

\* the state updates and listener calls of the trace
Acts(trace) == Updates(trace) \cup Calls(trace)

\* C19: in one ProcessResponse call, every state update and listener call for
\* a frame of the joined bucket comes before any for the invited bucket, and
\* every one for the invited bucket before any for the left bucket.
C19_BucketOrder ==
    Reconciled =>
      \A i, j \in Acts(hist.trace) :
         i < j => Rank(hist.trace[i].bucket) <= Rank(hist.trace[j].bucket)

\* one call updated state and called listeners in all three buckets
C19_Witness ==
    /\ Reconciled
    /\ \E i, j, k \in Calls(hist.trace) :
          /\ i < j /\ j < k
          /\ hist.trace[i].bucket = "join"
          /\ hist.trace[j].bucket = "invite"
          /\ hist.trace[k].bucket = "leave"
    /\ \E i, j \in Updates(hist.trace) :
          hist.trace[i].bucket = "join" /\ hist.trace[j].bucket = "leave"

\* ------------------------------------------------------------------------
\* the listener call is for an event that updates state: one of a State
\* subset (joined, invited) or of a left timeline
ForStateEvent(e) == e.part = "state" \/ e.bucket = "leave"

\* C20: when a listener is called for an event that updates state, that event
\* was put in the table before and the table of its frame holds it at its
\* (type, state key) at the moment of the call; and for a joined frame every
\* update from its State subset comes before any listener call for one of its
\* timeline or ephemeral events.
C20_UpdateBeforeDispatch ==
    Reconciled =>
      /\ \A i \in Calls(hist.trace) :
            ForStateEvent(hist.trace[i])
               => /\ hist.trace[i].held = hist.trace[i].event
                  /\ \E j \in Updates(hist.trace) :
                        /\ j < i
                        /\ hist.trace[j].event = hist.trace[i].event
                        /\ hist.trace[j].bucket = hist.trace[i].bucket
      /\ \A i \in Updates(hist.trace), j \in Calls(hist.trace) :
            (/\ hist.trace[i].bucket = "join"
             /\ hist.trace[j].bucket = "join"
             /\ hist.trace[j].part \in {"timeline", "ephemeral"}
             /\ hist.trace[i].event.FrameID = hist.trace[j].event.FrameID)
               => i < j

\* listeners were called for the second state event of a joined frame and for
\* a timeline event of the same frame
C20_Witness ==
    /\ Reconciled
    /\ \E i, j \in Calls(hist.trace) :
          /\ i < j
          /\ hist.trace[i].bucket = "join"
          /\ hist.trace[i].part = "state"
          /\ hist.trace[i].event = [E_leave EXCEPT !.FrameID = "r1"]
          /\ hist.trace[i].held = hist.trace[i].event
          /\ hist.trace[j].bucket = "join"
          /\ hist.trace[j].part = "timeline"
          /\ hist.trace[j].event.FrameID = "r1"

\* ------------------------------------------------------------------------
\* C21: every Sync() call obtains a token strictly greater than every token
\* that an earlier Sync() or StopSync() call obtained, for any number of calls.
C21_FreshToken ==
    [][\A p \in Procs :
         (pc[p] \in {"idle", "done"} /\ pc'[p] = "load")
            => token'[p] > hist.issued]_vars

\* ------------------------------------------------------------------------
\* C22 (as stated): each SaveNextBatch(user, p) comes after the ProcessResponse
\* call (reconciliation, or the skip of the initial sync) for the response that
\* carried p has returned.
C22_SavedAfterReconcile ==
    [][\A p \in Procs :
         (pc[p] = "save" /\ pc'[p] # "save")
            => hist.reconciled[nextBatch[p]] >= 1]_vars

\* C22 (amended): the persisted position is written only by the step between
\* the staleness check and ProcessResponse: SaveNextBatch(user, p) is made
\* with the NextBatch of the response the loop holds, before that response was
\* handed to ProcessResponse, and the ProcessResponse call for it (which
\* reconciles it, or skips it for an empty since) is the loop's next step, made
\* with p already persisted.
C22_SavedBeforeReconcile ==
    /\ [][LoadNextBatch(Store', UserID) # LoadNextBatch(Store, UserID)
            => \E p \in Procs : pc[p] = "save" /\ pc'[p] = "process"]_vars
    /\ [][\A p \in Procs :
            (pc[p] = "save" /\ pc'[p] # "save")
               => /\ pc'[p] = "process"
                  /\ LoadNextBatch(Store', UserID) = resSync[p].NextBatch
                  /\ resSync'[p] = resSync[p]
                  /\ hist.reconciled[nextBatch[p]] = 0
                  /\ hist'.reconciled = hist.reconciled
                  /\ hist'.trace = hist.trace]_vars
    /\ [][\A p \in Procs :
            (pc[p] = "process" /\ pc'[p] # "process")
               => /\ LoadNextBatch(Store, UserID) = resSync[p].NextBatch
                  /\ hist'.reconciled[nextBatch[p]] = 1]_vars

\* the position of a response fetched for a non-empty since is persisted and
\* the response has not been reconciled yet
C22_Witness ==
    /\ pc[1] = "process"
    /\ nextBatch[1] # Empty
    /\ LoadNextBatch(Store, UserID) = resSync[1].NextBatch
    /\ LoadNextBatch(Store, UserID) > nextBatch[1]
    /\ hist.reconciled[nextBatch[1]] = 0

\* ------------------------------------------------------------------------
\* what the state table of a frame shows at (t, k) is an event with a state
\* key, of type t and with state key k
WellKeyed(frame) ==
    \A t \in DOMAIN frame.State :
       \A k \in DOMAIN frame.State[t] :
          /\ frame.State[t][k].StateKey # NoKey
          /\ frame.State[t][k].Type = t
          /\ frame.State[t][k].StateKey = k

\* C23: in every reachable state, every entry of a frame's state table at
\* (t, k) is an event with a non-nil StateKey whose Type is t and whose
\* StateKey is k.
C23_StateTableInvariant ==
    \A f \in DOMAIN Store.Frames : WellKeyed(Store.Frames[f])

\* ------------------------------------------------------------------------
\* the frame IDs of the three buckets of a response
BucketIDs(res) ==
    DOMAIN res.Frames.Join \cup DOMAIN res.Frames.Invite \cup DOMAIN res.Frames.Leave

\* the trace has a state update of frame f at (t, k)
UpdatedAt(trace, f, t, k) ==
    \E i \in Updates(trace) :
       /\ trace[i].event.FrameID = f
       /\ trace[i].event.Type = t
       /\ trace[i].event.StateKey = k

\* the frame keeps what the old one held, except where the trace updated it
KeptState(old, new, trace) ==
    /\ new.ID = old.ID
    /\ \A t \in DOMAIN old.State :
          /\ t \in DOMAIN new.State
          /\ \A k \in DOMAIN old.State[t] :
                /\ k \in DOMAIN new.State[t]
                /\ new.State[t][k] # old.State[t][k]
                      => UpdatedAt(trace, old.ID, t, k)

\* C24: after a ProcessResponse call with non-empty since that returned nil,
\* every frame ID left in the joined, invited or left bucket after suppression
\* has a frame in the Store; a frame the Store already had is the same frame
\* with its state kept (changed only where the batch updated it); and no step
\* removes a frame from the Store.
C24_FrameLifecycle ==
    /\ []((Reconciled /\ ret[1] = "nil") =>
            /\ \A f \in BucketIDs(resSync[1]) :
                  f \in DOMAIN Store.Frames /\ Store.Frames[f].ID = f
            /\ \A f \in DOMAIN hist.input.frames :
                  /\ f \in DOMAIN Store.Frames
                  /\ KeptState(hist.input.frames[f], Store.Frames[f], hist.trace))
    /\ [][DOMAIN Store.Frames \subseteq DOMAIN Store'.Frames]_vars

\* a frame the Store had was updated at another key and kept its old entry,
\* and a frame the Store did not have was saved
C24_Witness ==
    /\ Reconciled
    /\ ret[1] = "nil"
    /\ "r1" \in DOMAIN hist.input.frames
    /\ "r1" \in BucketIDs(resSync[1])
    /\ UpdatedAt(hist.trace, "r1", MemberType, OtherUser)
    /\ GetStateEvent(Store.Frames["r1"], MemberType, UserID)
          = GetStateEvent(hist.input.frames["r1"], MemberType, UserID)
    /\ GetStateEvent(Store.Frames["r1"], MemberType, UserID) # NilEvent
    /\ "r2" \in DOMAIN Store.Frames

\* ------------------------------------------------------------------------
\* the token of the running loop p is no longer the live one
Stale(p) == Running(p) /\ pc[p] # "load" /\ syncingID # token[p]

\* C25: in each iteration the live token is read once, after the fetch has
\* returned a response and before SaveNextBatch and ProcessResponse: a fetch
\* ends in the check or in the failure policy; the check is the only step
\* whose outcome depends on the live token; a failed fetch reads nothing, so
\* a stale loop still runs the failure policy, sleeps and fetches again.
C25_CheckPlacement ==
    /\ [](\A p \in Procs :
            /\ pc[p] \in {"inflight", "check", "failed", "sleep"}
                  => hist.reads[p] = 0
            /\ pc[p] \in {"save", "process"} => hist.reads[p] = 1
            /\ pc[p] = "failed" => ENABLED OnFailedSync(p, "retry")
            /\ pc[p] = "sleep" => ENABLED SleepDone(p))
    /\ [][\A p \in Procs :
            /\ (pc[p] = "inflight" /\ pc'[p] # "inflight")
                  => pc'[p] \in {"check", "failed"}
            /\ (pc[p] = "check" /\ pc'[p] # "check")
                  => IF syncingID # token[p]
                     THEN pc'[p] = "done" /\ ret'[p] = "nil" /\ Store' = Store
                     ELSE pc'[p] = "save" /\ Store' = Store
            /\ (pc[p] = "save" /\ pc'[p] # "save") => pc'[p] = "process"
            /\ (pc[p] = "process" /\ pc'[p] # "process")
                  => \/ pc'[p] = "inflight" /\ hist'.sent[p].kind = "next"
                     \/ pc'[p] = "done" /\ ret'[p] = "errProcess"
            /\ (pc[p] = "failed" /\ pc'[p] # "failed")
                  => \/ pc'[p] = "sleep"
                     \/ pc'[p] = "done" /\ ret'[p] = "errPolicy"
            /\ (pc[p] = "sleep" /\ pc'[p] # "sleep")
                  => pc'[p] = "inflight" /\ hist'.sent[p].kind = "retry"]_vars

\* a loop whose token went stale before its fetch failed has run the failure
\* policy and sent the request again
C25_Witness ==
    \E p \in Procs :
       /\ pc[p] = "inflight"
       /\ hist.sent[p].kind = "retry"
       /\ hist.stop[p] = "returned"
       /\ Stale(p)

\* ------------------------------------------------------------------------
\* the listener calls made for the events of one part of joined frame f, as
\* (callback, event) pairs in the order they were made
Dispatched(trace, f, part) ==
    LET sel == SelectSeq(trace, LAMBDA e : /\ e.op = "call"
                                           /\ e.bucket = "join"
                                           /\ e.part = part
                                           /\ e.event.FrameID = f)
    IN  [i \in 1..Len(sel) |-> [fn |-> sel[i].fn, event |-> sel[i].event]]

\* the calls due for a list of events: each event, with the frame ID, to the
\* callbacks registered for its type in registration order
RECURSIVE DueCalls(_, _, _, _)
DueCalls(lst, f, events, i) ==
    IF i > Len(events) THEN << >>
    ELSE LET event == [events[i] EXCEPT !.FrameID = f]
             fns == Registered(lst, event.Type)
         IN  [j \in 1..Len(fns) |-> [fn |-> fns[j], event |-> event]]
             \o DueCalls(lst, f, events, i + 1)

\* every difference between the two state tables of a frame is at a cell the
\* trace updated from a State subset or from a left timeline
OnlyStateUpdates(old, new, trace, f) ==
    /\ \A t \in DOMAIN new.State :
          \A k \in DOMAIN new.State[t] :
             (t \notin DOMAIN old.State
              \/ k \notin DOMAIN old.State[t]
              \/ new.State[t][k] # old.State[t][k])
                => \E i \in Updates(trace) :
                      /\ ForStateEvent(trace[i])
                      /\ trace[i].event.FrameID = f
                      /\ trace[i].event.Type = t
                      /\ trace[i].event.StateKey = k
    /\ \A t \in DOMAIN old.State :
          t \in DOMAIN new.State /\ DOMAIN old.State[t] \subseteq DOMAIN new.State[t]

\* C26: when a joined frame is reconciled, each of its timeline events and
\* each of its ephemeral events goes to the listeners of its type with the
\* frame ID attached, and none of them changes a state table, state key or
\* not: the tables differ from before only where a State subset (or a left
\* timeline) updated them, and a joined frame with an empty State subset that
\* is in no other bucket keeps its table as it was.
C26_TimelineNoStateChange ==
    (Reconciled /\ ret[1] = "nil") =>
      /\ \A i \in Updates(hist.trace) : ForStateEvent(hist.trace[i])
      /\ \A f \in DOMAIN Store.Frames :
            OnlyStateUpdates(FrameBefore(hist.input.frames, f), Store.Frames[f],
                             hist.trace, f)
      /\ \A f \in DOMAIN resSync[1].Frames.Join :
            LET data == resSync[1].Frames.Join[f]
            IN  /\ Dispatched(hist.trace, f, "timeline")
                      = DueCalls(listeners, f, data.Timeline, 1)
                /\ Dispatched(hist.trace, f, "ephemeral")
                      = DueCalls(listeners, f, data.Ephemeral, 1)
                /\ (/\ data.State = NoEvents
                    /\ f \notin DOMAIN resSync[1].Frames.Invite
                    /\ f \notin DOMAIN resSync[1].Frames.Leave)
                      => Store.Frames[f] = FrameBefore(hist.input.frames, f)

\* a timeline event with a state key and an ephemeral event of a joined frame
\* went to their listeners and the table of the frame has no entry for them
C26_Witness ==
    /\ Reconciled
    /\ ret[1] = "nil"
    /\ "r1" \in DOMAIN resSync[1].Frames.Join
    /\ resSync[1].Frames.Join["r1"].Timeline = << E_other >>
    /\ resSync[1].Frames.Join["r1"].Ephemeral = << E_msg >>
    /\ Dispatched(hist.trace, "r1", "timeline")
          = << [fn |-> "cbOk", event |-> [E_other EXCEPT !.FrameID = "r1"]] >>
    /\ Dispatched(hist.trace, "r1", "ephemeral")
          = << [fn |-> "cbOk", event |-> [E_msg EXCEPT !.FrameID = "r1"]] >>
    /\ GetStateEvent(Store.Frames["r1"], MemberType, OtherUser) = NilEvent
    /\ GetStateEvent(Store.Frames["r1"], MemberType, UserID) # NilEvent

\* ------------------------------------------------------------------------
\* C27: for a batch reconciled with a non-empty since, a joined frame is
\* removed exactly when its timeline holds, at any position, a member event of
\* the syncing user whose membership is the string "join"; its invited entry
\* goes with it; a frame that stays keeps all its events, nothing else is
\* removed from the response, and no event of the joined entry of a removed
\* frame reaches a listener, the messages after the join included.
C27_SuppressionCriterion ==
    Reconciled =>
      LET before == hist.input.res.Frames
          after == resSync[1].Frames
          gone == {f \in DOMAIN before.Join : HasUserJoin(before.Join[f].Timeline)}
      IN  /\ DOMAIN after.Join = DOMAIN before.Join \ gone
          /\ DOMAIN after.Invite = DOMAIN before.Invite \ gone
          /\ \A f \in DOMAIN after.Join : after.Join[f] = before.Join[f]
          /\ \A f \in DOMAIN after.Invite : after.Invite[f] = before.Invite[f]
          /\ after.Leave = before.Leave
          /\ \A i \in Acts(hist.trace) :
                hist.trace[i].bucket \in {"join", "invite"}
                   => hist.trace[i].event.FrameID \notin gone

\* a frame whose join is followed by a member event of the user with a
\* membership that is not a string was removed, and the other joined frame of
\* the batch was dispatched
C27_Witness ==
    /\ Reconciled
    /\ "r1" \in DOMAIN hist.input.res.Frames.Join
    /\ hist.input.res.Frames.Join["r1"].Timeline = << E_join, E_odd >>
    /\ "r1" \notin DOMAIN resSync[1].Frames.Join
    /\ "r2" \in DOMAIN resSync[1].Frames.Join
    /\ MemberType \in DOMAIN listeners
    /\ \E i \in Calls(hist.trace) : hist.trace[i].event.FrameID = "r2"

\* ------------------------------------------------------------------------
\* C28: the since handed to ProcessResponse is the since-position of the fetch
\* that produced the response, not the NextBatch of the response; and after an
\* iteration whose response carried NextBatch = p and was reconciled without
\* error, the next fetch of the loop is sent with since = p.
C28_PositionChaining ==
    /\ [](\A p \in Procs :
            pc[p] \in {"inflight", "check", "save", "process", "failed", "sleep"}
               => nextBatch[p] = hist.sent[p].since)
    /\ [][\A p \in Procs :
            (pc[p] = "process" /\ pc'[p] # "process")
               => /\ hist'.reconciled =
                       [hist.reconciled EXCEPT ![hist.sent[p].since] = @ + 1]
                  /\ resSync[p].NextBatch # hist.sent[p].since
                  /\ \/ /\ pc'[p] = "inflight"
                        /\ hist'.sent[p].kind = "next"
                        /\ hist'.sent[p].since = resSync[p].NextBatch
                        /\ hist'.sent[p].filter = hist.sent[p].filter
                     \/ /\ pc'[p] = "done"
                        /\ ret'[p] = "errProcess"
                        /\ hist'.err.since = hist.sent[p].since]_vars

\* a loop has chained twice: the skipped initial response gave position 1, the
\* response fetched for 1 was reconciled and gave 2, the fetch for 2 is out
C28_Witness ==
    /\ pc[1] = "inflight"
    /\ hist.sent[1].kind = "next"
    /\ hist.sent[1].since = 2
    /\ hist.reconciled[0] = 1
    /\ hist.reconciled[1] = 1
    /\ LoadNextBatch(Store, UserID) = 2

\* ------------------------------------------------------------------------
\* what the invited-frame rule asks for a list of invite-state events: for
\* each event in order, with the frame ID attached, the update of the table
\* and then the calls of the listeners of its type, made while the table
\* holds the event at its (type, state key)
RECURSIVE InviteDue(_, _, _, _)
InviteDue(lst, f, events, i) ==
    IF i > Len(events) THEN << >>
    ELSE LET event == [events[i] EXCEPT !.FrameID = f]
         IN  << [op |-> "update", bucket |-> "invite", part |-> "state",
                 event |-> event] >>
             \o CallsDue(lst, event, "invite", "state")
             \o InviteDue(lst, f, events, i + 1)

\* the entries of the trace made for frame f in the invited bucket
InviteTrace(trace, f) ==
    SelectSeq(trace, LAMBDA e : /\ e.op # "save"
                                /\ e.bucket = "invite"
                                /\ e.event.FrameID = f)

\* C29: after a ProcessResponse call with non-empty since that returned nil, a
\* frame that is in the invited bucket only is still there, and for every
\* frame left in the invited bucket each invite-state event was processed in
\* order: frame ID attached, state table updated at (type, state key), then
\* the listeners of its type called; the frame is in the Store.
C29_InvitedFrames ==
    (Reconciled /\ ret[1] = "nil") =>
      /\ \A f \in DOMAIN hist.input.res.Frames.Invite :
            f \notin DOMAIN hist.input.res.Frames.Join
               => f \in DOMAIN resSync[1].Frames.Invite
      /\ \A f \in DOMAIN resSync[1].Frames.Invite :
            /\ f \in DOMAIN Store.Frames
            /\ InviteTrace(hist.trace, f)
                  = InviteDue(listeners, f, resSync[1].Frames.Invite[f].State, 1)

\* a frame that is invited only had its two invite-state events put in the
\* table and dispatched
C29_Witness ==
    /\ Reconciled
    /\ ret[1] = "nil"
    /\ "r1" \in DOMAIN resSync[1].Frames.Invite
    /\ "r1" \notin DOMAIN hist.input.res.Frames.Join
    /\ resSync[1].Frames.Invite["r1"].State = << E_other, E_leave >>
    /\ Len(InviteTrace(hist.trace, "r1")) = 4
    /\ InviteTrace(hist.trace, "r1")[4].op = "call"
    /\ InviteTrace(hist.trace, "r1")[4].event = [E_leave EXCEPT !.FrameID = "r1"]

\* ------------------------------------------------------------------------
\* C30: in a loop that started from an empty persisted position, the first
\* response that passes the check is not reconciled (no frame saved, no state
\* update, no listener call, no error), its NextBatch is in the Store and is
\* the since of the second fetch; and the response fetched for that non-empty
\* since is reconciled: its joined frame is saved and its state event is in
\* the table.
C30_InitialSyncAdvances ==
    [][\A p \in Procs :
         /\ (pc[p] = "process" /\ hist.sent[p].since = Empty /\ pc'[p] # "process")
               => /\ Store'.Frames = Store.Frames
                  /\ hist'.trace = << >>
                  /\ hist'.err = hist.err
                  /\ LoadNextBatch(Store', UserID) = resSync[p].NextBatch
                  /\ pc'[p] = "inflight"
                  /\ hist'.sent[p].kind = "next"
                  /\ hist'.sent[p].since = resSync[p].NextBatch
                  /\ hist'.sent[p].since # Empty
         /\ (/\ pc[p] = "process" /\ hist.sent[p].since # Empty
             /\ pc'[p] # "process" /\ resSync[p].Frames = BatchMsg)
               => /\ "r1" \in DOMAIN Store'.Frames
                  /\ GetStateEvent(Store'.Frames["r1"], MemberType, OtherUser)
                        = [E_other EXCEPT !.FrameID = "r1"]
                  /\ \E i \in Updates(hist'.trace) :
                        hist'.trace[i].event = [E_other EXCEPT !.FrameID = "r1"]]_vars

\* the one loop started from an empty Store, skipped the first response, saved
\* position 1, fetched with since = 1 and reconciled that response
C30_Witness ==
    /\ calls = 1
    /\ Running(1)
    /\ hist.reconciled[0] = 1
    /\ hist.reconciled[1] = 1
    /\ "r1" \in DOMAIN Store.Frames
    /\ GetStateEvent(Store.Frames["r1"], MemberType, OtherUser) # NilEvent
    /\ LoadNextBatch(Store, UserID) = 2

\* ------------------------------------------------------------------------
\* C31: with a single loop and no other writer of the Store, every time the
\* loop sends a SyncRequest (the first of a Sync() call, the one after a
\* reconciled response, a retry) its local since-position is the position
\* persisted in the Store for the user, and it stays so while the request is
\* in flight.
C31_SinceIsPersisted ==
    /\ [][\A p \in Procs :
            (pc[p] # "inflight" /\ pc'[p] = "inflight")
               => /\ hist'.sent[p].since = LoadNextBatch(Store', UserID)
                  /\ nextBatch'[p] = LoadNextBatch(Store', UserID)]_vars
    /\ [](\A p \in Procs :
            pc[p] = "inflight"
               => /\ hist.sent[p].since = LoadNextBatch(Store, UserID)
                  /\ nextBatch[p] = LoadNextBatch(Store, UserID))

\* the request that follows a reconciled response is in flight with the
\* position that response brought, after two or more Sync()/StopSync() calls
C31_Witness ==
    /\ pc[1] = "inflight"
    /\ hist.sent[1].kind = "next"
    /\ hist.sent[1].since = LoadNextBatch(Store, UserID)
    /\ hist.sent[1].since = 2
    /\ calls >= 2
    /\ hist.reconciled[1] = 1

\* ------------------------------------------------------------------------
\* the frames saved and the table cells updated by the trace are in the frames
KeepsEffects(frames, trace) ==
    \A i \in 1..Len(trace) :
       /\ trace[i].op = "save" => trace[i].frame \in DOMAIN frames
       /\ trace[i].op = "update"
            => /\ trace[i].event.FrameID \in DOMAIN frames
               /\ GetStateEvent(frames[trace[i].event.FrameID],
                                trace[i].event.Type, trace[i].event.StateKey)
                     # NilEvent

\* nothing was done after the fault: a panicking callback is the last entry
\* of the trace, and a State event without state key has no entry at all
StopsAtFault(trace) ==
    /\ \A i \in Calls(trace) : trace[i].fn = "cbPanic" => i = Len(trace)
    /\ \A i \in Acts(trace) :
          trace[i].part = "state" => trace[i].event.StateKey # NoKey

NilKeyed(events, f) ==
    {[events[i] EXCEPT !.FrameID = f] :
       i \in {j \in 1..Len(events) : events[j].StateKey = NoKey}}

\* the State events without state key that a response holds for frame f in
\* its joined and invited buckets
NilKeyStateEvents(res, f) ==
    (IF f \in DOMAIN res.Frames.Join
     THEN NilKeyed(res.Frames.Join[f].State, f) ELSE {})
    \cup (IF f \in DOMAIN res.Frames.Invite
          THEN NilKeyed(res.Frames.Invite[f].State, f) ELSE {})

\* the events a state table holds
Entries(frame) ==
    UNION {{frame.State[t][k] : k \in DOMAIN frame.State[t]} :
             t \in DOMAIN frame.State}

\* C33: when the State subset of a joined or invited frame of a reconciled
\* batch holds an event without state key, ProcessResponse returns an error,
\* no state table has that event as an entry, and no listener was called for
\* it.
C33_NilKeyStateEvent ==
    Reconciled =>
      \A f \in BucketIDs(resSync[1]) :
         NilKeyStateEvents(resSync[1], f) # {}
            => /\ ret[1] = "errProcess"
               /\ hist.err = PanicError(UserID, nextBatch[1])
               /\ \A g \in DOMAIN Store.Frames :
                     Entries(Store.Frames[g]) \cap NilKeyStateEvents(resSync[1], f) = {}
               /\ \A i \in Calls(hist.trace) :
                     hist.trace[i].event \notin NilKeyStateEvents(resSync[1], f)
                     \/ hist.trace[i].part # "state"

\* ------------------------------------------------------------------------
\* the event of the last state update of frame f at (t, k) among the first i
\* entries of the trace, nil when there is none
RECURSIVE LastUpdate(_, _, _, _, _)
LastUpdate(trace, i, f, t, k) ==
    IF i = 0 THEN NilEvent
    ELSE IF /\ trace[i].op = "update"
            /\ trace[i].event.FrameID = f
            /\ trace[i].event.Type = t
            /\ trace[i].event.StateKey = k
         THEN trace[i].event
         ELSE LastUpdate(trace, i - 1, f, t, k)

\* what the Store held for frame f at (t, k) when ProcessResponse was called
HeldBefore(f, t, k) ==
    IF f \in DOMAIN hist.input.frames
    THEN GetStateEvent(hist.input.frames[f], t, k)
    ELSE NilEvent

\* C34: after ProcessResponse has processed a batch, GetStateEvent(type, key)
\* of every frame returns, for every pair the batch updated in that frame, the
\* last event of the batch with that pair, and for every other pair what the
\* table held before the batch.
C34_LastEventPerPair ==
    Reconciled =>
      \A f \in DOMAIN Store.Frames :
         \A t \in EventTypes, k \in {UserID, OtherUser} :
            GetStateEvent(Store.Frames[f], t, k)
               = IF UpdatedAt(hist.trace, f, t, k)
                 THEN LastUpdate(hist.trace, Len(hist.trace), f, t, k)
                 ELSE HeldBefore(f, t, k)

\* ------------------------------------------------------------------------
\* the joined frames of the call's response that the pre-filter suppresses
Suppressed ==
    {f \in DOMAIN hist.input.res.Frames.Join :
       HasUserJoin(hist.input.res.Frames.Join[f].Timeline)}

\* the batch left the Store's frame f as it was: no frame was made for it and
\* its state table is what it was
Untouched(f) ==
    /\ \A i \in Updates(hist.trace) : hist.trace[i].event.FrameID # f
    /\ IF f \in DOMAIN hist.input.frames
       THEN f \in DOMAIN Store.Frames /\ Store.Frames[f] = hist.input.frames[f]
       ELSE f \notin DOMAIN Store.Frames

\* frame f was first seen in this batch and the user's membership in it reads
\* "join" afterwards
JoinedAfterwards(f) ==
    /\ f \notin DOMAIN hist.input.frames
    /\ f \in DOMAIN Store.Frames
    /\ GetMembershipState(Store.Frames[f], UserID) = "join"

\* C35 as stated: for a batch reconciled with a non-empty since, the state
\* table of every suppressed frame is not updated, no frame is created in the
\* Store for it, and the user's membership in a suppressed frame first seen in
\* the batch does not read "join" afterwards.
C35_SuppressedUntouched ==
    Reconciled =>
      \A f \in Suppressed : Untouched(f) /\ ~JoinedAfterwards(f)

\* C35 amended: the State and invite-state events of a suppressed frame update
\* no state table; a suppressed frame that is not also in the left bucket is
\* left as it was (not created, table not updated), and when it was first
\* seen in the batch the user's membership in it does not read "join"
\* afterwards; one that is also in the left bucket is created and is updated
\* by the state events of its left timeline only.
C35_SuppressedExceptLeft ==
    Reconciled =>
      \A f \in Suppressed :
         /\ \A i \in Updates(hist.trace) :
               hist.trace[i].event.FrameID = f
                  => /\ hist.trace[i].bucket = "leave"
                     /\ hist.trace[i].part = "timeline"
         /\ f \notin DOMAIN hist.input.res.Frames.Leave
               => Untouched(f) /\ ~JoinedAfterwards(f)
         /\ (f \in DOMAIN hist.input.res.Frames.Leave /\ ret[1] = "nil")
               => f \in DOMAIN Store.Frames

\* a frame the Store did not have, joined with a State event and invited with
\* one, was suppressed and not created, while the batch's other joined frame
\* was created and updated
C35_Witness ==
    /\ Reconciled
    /\ "r1" \in Suppressed
    /\ hist.input.res.Frames.Join["r1"].State = << E_other >>
    /\ "r1" \in DOMAIN hist.input.res.Frames.Invite
    /\ hist.input.res.Frames.Invite["r1"].State = << E_other, E_leave >>
    /\ "r1" \notin DOMAIN hist.input.res.Frames.Leave
    /\ "r1" \notin DOMAIN hist.input.frames
    /\ "r1" \notin DOMAIN Store.Frames
    /\ "r2" \in DOMAIN Store.Frames
    /\ UpdatedAt(hist.trace, "r2", MemberType, OtherUser)

\* ------------------------------------------------------------------------
\* the Sync() calls still running whose captured token is the live one
Live == {p \in Procs : Running(p) /\ token[p] = syncingID}

\* C36: token issue is atomic under every interleaving of Sync() and
\* StopSync() calls: the counter equals the number of calls made modulo 2^32
\* (no increment is lost), a Sync() call obtains the counter's new value and
\* that token differs from the token of every other call still running (no two
\* calls obtain the same token), and at most one running loop has a captured
\* token equal to the live token.
C36_AtomicTokenIssue ==
    /\ [](syncingID = Zero32 + calls)
    /\ [](Cardinality(Live) <= 1)
    /\ [][\A p \in Procs :
            (pc[p] \in {"idle", "done"} /\ pc'[p] = "load")
               => /\ token'[p] = syncingID'
                  /\ \A q \in Procs \ {p} :
                        Running(q) => token[q] # token'[p]]_vars

====
